---------------------------- MODULE Spec2Model ----------------------------
(* A model of src/app.py: the candidate-profile web application.           *)
(*   File Intake      allowed_file, save_uploaded_file                     *)
(*   Text Extractor   ProfileGenerator.extract_text_from_pdf               *)
(*   Profile Generator generate_with_gemini, generate_fallback             *)
(*   Candidate Store  DatabaseManager.save_candidate, get_candidate        *)
(*   Web Orchestrator upload_files, view_profile                           *)
(*                                                                         *)
(* A Python str is a sequence of atoms (an atom is one character, or an    *)
(* opaque run of characters no operation looks into); '' is << >>.         *)
EXTENDS Integers, Sequences, FiniteSets

VARIABLES
    uploads,   \* the upload directory: stored path -> the bytes it holds
    table,     \* the committed rows of candidate_profiles, oldest first
    rq,        \* per request slot: the locals of upload_files / view_profile
    dbop,      \* the last DatabaseManager operation: connections and outcome
    writes,    \* every file.save so far: who wrote which upload where
    saved,     \* candidate_id -> the arguments of the save_candidate that returned it
    call       \* the last direct call of a component, its input and result

vars == <<uploads, table, rq, dbop, writes, saved, call>>

-----------------------------------------------------------------------------
(* Bounds of the model.                                                    *)

MaxStemLen == 2      \* longest generated filename stem, in characters
MaxReplyLen == 3     \* longest generated model reply, in tokens
MaxUploadRows == 1   \* rows the table may hold while uploads of every kind are served
MaxRows == 2         \* rows the table may hold while records are added and viewed
MaxStoreRows == 1    \* rows the table may hold under direct store calls
MaxParts == 1        \* file parts one racing request carries
NumIds == 3          \* identifiers uuid4 may draw

-----------------------------------------------------------------------------
(* Python str operations, on sequences of atoms.                           *)

RECURSIVE SeqsUpTo(_, _)
SeqsUpTo(S, n) ==
    IF n = 0 THEN {<< >>}
    ELSE LET shorter == SeqsUpTo(S, n - 1)
         IN  shorter \cup {Append(s, c) : s \in shorter, c \in S}

UpperCase == <<"A", "B", "C", "D", "E", "F", "G", "H", "I", "J", "K", "L", "M",
               "N", "O", "P", "Q", "R", "S", "T", "U", "V", "W", "X", "Y", "Z">>
LowerCase == <<"a", "b", "c", "d", "e", "f", "g", "h", "i", "j", "k", "l", "m",
               "n", "o", "p", "q", "r", "s", "t", "u", "v", "w", "x", "y", "z">>

\* str.lower() of one character
LowerChar(c) ==
    IF \E i \in 1..26 : UpperCase[i] = c
    THEN LowerCase[CHOOSE i \in 1..26 : UpperCase[i] = c]
    ELSE c

\* s.lower()
Lower(s) == [i \in 1..Len(s) |-> LowerChar(s[i])]

\* c in s
Contains(s, c) == \E i \in 1..Len(s) : s[i] = c

\* s.find(c) and s.rfind(c), 1-based; 0 when c is not in s (Python's -1)
Find(s, c) ==
    IF Contains(s, c)
    THEN CHOOSE i \in 1..Len(s) : s[i] = c /\ \A j \in 1..(i - 1) : s[j] # c
    ELSE 0
RFind(s, c) ==
    IF Contains(s, c)
    THEN CHOOSE i \in 1..Len(s) : s[i] = c /\ \A j \in (i + 1)..Len(s) : s[j] # c
    ELSE 0

\* s.rsplit(c, 1)[1] when c is in s: the text after the last c
RSplitLast(s, c) == SubSeq(s, RFind(s, c) + 1, Len(s))
\* s.split(c, 1)[1] when c is in s: the text after the first c
SplitFirst(s, c) == SubSeq(s, Find(s, c) + 1, Len(s))

\* s.strip(chars): leading and trailing characters of the set removed
RECURSIVE LStrip(_, _)
LStrip(s, chars) ==
    IF s # << >> /\ Head(s) \in chars THEN LStrip(Tail(s), chars) ELSE s
RECURSIVE RStrip(_, _)
RStrip(s, chars) ==
    IF s # << >> /\ s[Len(s)] \in chars
    THEN RStrip(SubSeq(s, 1, Len(s) - 1), chars) ELSE s
Strip(s, chars) == RStrip(LStrip(s, chars), chars)

\* s.split(c): the pieces between occurrences of c (empty pieces included)
RECURSIVE SplitOn(_, _)
SplitOn(s, c) ==
    IF ~Contains(s, c) THEN <<s>>
    ELSE <<SubSeq(s, 1, Find(s, c) - 1)>> \o SplitOn(SplitFirst(s, c), c)

\* sep.join(pieces)
RECURSIVE Join(_, _)
Join(pieces, sep) ==
    IF pieces = << >> THEN << >>
    ELSE IF Len(pieces) = 1 THEN pieces[1]
    ELSE pieces[1] \o sep \o Join(Tail(pieces), sep)

\* the members of a sequence of pieces that are not ''
RECURSIVE NonEmpty(_)
NonEmpty(pieces) ==
    IF pieces = << >> THEN << >>
    ELSE IF Head(pieces) = << >> THEN NonEmpty(Tail(pieces))
    ELSE <<Head(pieces)>> \o NonEmpty(Tail(pieces))

-----------------------------------------------------------------------------
(* File Intake.                                                            *)

PDF == <<"p", "d", "f">>
PNG == <<"p", "n", "g">>
JPG == <<"j", "p", "g">>
JPEG == <<"j", "p", "e", "g">>
DOC == <<"d", "o", "c">>
DOCX == <<"d", "o", "c", "x">>
allowed_extensions == {PDF, PNG, JPG, JPEG, DOC, DOCX}

\* the extension test done on the first dot instead of the last
allowed_file_first_dot(filename) ==
    /\ Contains(filename, ".")
    /\ Lower(SplitFirst(filename, ".")) \in allowed_extensions

allowed_file(filename) ==
    /\ Contains(filename, ".")
    /\ Lower(RSplitLast(filename, ".")) \in allowed_extensions

\* werkzeug.utils.secure_filename, on the characters of the model: path
\* separators become spaces, runs of whitespace become one "_", characters
\* outside [A-Za-z0-9_.-] are dropped, leading and trailing "." and "_" go.
SafeChar(c) ==
    \/ c \in {"_", ".", "-"}
    \/ \E i \in 1..26 : c = UpperCase[i] \/ c = LowerCase[i]
    \/ c \in {"0", "1", "2", "3", "4", "5", "6", "7", "8", "9"}
secure_filename(filename) ==
    LET spaced == [i \in 1..Len(filename) |->
                      IF filename[i] = "/" THEN " " ELSE filename[i]]
        joined == Join(NonEmpty(SplitOn(spaced, " ")), <<"_">>)
    IN  Strip(SelectSeq(joined, SafeChar), {".", "_"})

\* the type tags of upload_files, in the order it handles them
CV == <<"c", "v">>
TRANSCRIPT == <<"t", "r", "a", "n", "s", "c", "r", "i", "p", "t">>
QUALIFICATIONS == <<"q", "u", "a", "l", "i", "f", "i", "c", "a", "t", "i", "o", "n", "s">>
PICTURE == <<"p", "i", "c", "t", "u", "r", "e">>
Tags == <<CV, TRANSCRIPT, QUALIFICATIONS, PICTURE>>
TagSet == {Tags[i] : i \in 1..4}

UPLOAD_FOLDER == <<"u", "p", "l", "o", "a", "d", "s">>

\* a werkzeug FileStorage, or None; bool(file) is bool(file.filename)
NoneFile == [isNone |-> TRUE, filename |-> << >>, data |-> "none"]
FileStorage(filename, data) == [isNone |-> FALSE, filename |-> filename, data |-> data]
Truthy(file) == ~file.isNone /\ file.filename # << >>

\* Optional values: Python's None against a value
None == [some |-> FALSE, v |-> << >>]
Some(x) == [some |-> TRUE, v |-> x]

\* the stored name without the type tag in front
stored_path_untagged(file, file_type) ==
    UPLOAD_FOLDER \o <<"/">> \o secure_filename(file.filename)

\* where save_uploaded_file puts an accepted file
stored_path(file, file_type) ==
    UPLOAD_FOLDER \o <<"/">> \o file_type \o <<"_">> \o secure_filename(file.filename)

\* save_uploaded_file(file, file_type): [ret, uploads after]
save_uploaded_file(file, file_type, dir) ==
    IF Truthy(file) /\ allowed_file(file.filename)
    THEN LET file_path == stored_path(file, file_type)
         IN  [ret |-> Some(file_path),
              dir |-> [p \in DOMAIN dir \cup {file_path} |->
                          IF p = file_path THEN file.data ELSE dir[p]]]
    ELSE [ret |-> None, dir |-> dir]

-----------------------------------------------------------------------------
(* JSON. A Python value that json handles is a tagged tree: a str, a list  *)
(* of values, or a dict kept as its (key, value) pairs in insertion order. *)
(* A JSON text is a sequence of tokens: punctuation, string literals, and  *)
(* words of prose that are not JSON at all.                                *)

\* (t names the kind; s, l and d hold a str's text, a list's items and a
\* dict's pairs, the two that do not apply left empty)
JS(text) == [t |-> "str", s |-> text, l |-> << >>, d |-> << >>]
JL(items) == [t |-> "list", s |-> << >>, l |-> items, d |-> << >>]
JD(pairs) == [t |-> "dict", s |-> << >>, l |-> << >>, d |-> pairs]

P(c) == [k |-> "p", x |-> <<c>>]
StrTok(text) == [k |-> "s", x |-> text]
Prose == [k |-> "w", x |-> <<"Sure, here is the profile">>]
IsP(tok, c) == tok.k = "p" /\ tok.x = <<c>>

\* d.get(key, default) on a dict of the tagged form; the value found is a tree
HasKey(x, key) == \E i \in 1..Len(x.d) : x.d[i][1] = key
Lookup(x, key) == x.d[CHOOSE i \in 1..Len(x.d) : x.d[i][1] = key][2]
\* d.get(key, default) for a dict whose values are str: the text
GetText(x, key, default) == IF HasKey(x, key) THEN Lookup(x, key).s ELSE default
\* d[key] = value, keeping the place of a key already there
DictSet(pairs, key, value) ==
    IF \E i \in 1..Len(pairs) : pairs[i][1] = key
    THEN [i \in 1..Len(pairs) |-> IF pairs[i][1] = key THEN <<key, value>> ELSE pairs[i]]
    ELSE Append(pairs, <<key, value>>)
Keys(x) == {x.d[i][1] : i \in 1..Len(x.d)}

\* json.dumps
RECURSIVE Dumps(_)
RECURSIVE DumpsItems(_)
RECURSIVE DumpsMembers(_)
Dumps(x) ==
    CASE x.t = "str" -> <<StrTok(x.s)>>
      [] x.t = "list" -> <<P("[")>> \o DumpsItems(x.l) \o <<P("]")>>
      [] x.t = "dict" -> <<P("{")>> \o DumpsMembers(x.d) \o <<P("}")>>
DumpsItems(items) ==
    IF items = << >> THEN << >>
    ELSE IF Len(items) = 1 THEN Dumps(items[1])
    ELSE Dumps(items[1]) \o <<P(",")>> \o DumpsItems(Tail(items))
DumpsMembers(pairs) ==
    IF pairs = << >> THEN << >>
    ELSE LET member == <<StrTok(pairs[1][1]), P(":")>> \o Dumps(pairs[1][2])
         IN  IF Len(pairs) = 1 THEN member
             ELSE member \o <<P(",")>> \o DumpsMembers(Tail(pairs))

\* json.loads: a recursive-descent parse; n is the next unread token
ParseFail == [ok |-> FALSE, v |-> JS(<< >>), n |-> 0]
RECURSIVE ParseValue(_, _)
RECURSIVE ParseItems(_, _, _)
RECURSIVE ParseMembers(_, _, _)
ParseValue(toks, i) ==
    IF i > Len(toks) THEN ParseFail
    ELSE IF toks[i].k = "s" THEN [ok |-> TRUE, v |-> JS(toks[i].x), n |-> i + 1]
    ELSE IF IsP(toks[i], "[")
         THEN IF i + 1 <= Len(toks) /\ IsP(toks[i + 1], "]")
              THEN [ok |-> TRUE, v |-> JL(<< >>), n |-> i + 2]
              ELSE ParseItems(toks, i + 1, << >>)
    ELSE IF IsP(toks[i], "{")
         THEN IF i + 1 <= Len(toks) /\ IsP(toks[i + 1], "}")
              THEN [ok |-> TRUE, v |-> JD(<< >>), n |-> i + 2]
              ELSE ParseMembers(toks, i + 1, << >>)
    ELSE ParseFail
ParseItems(toks, i, acc) ==
    LET item == ParseValue(toks, i)
    IN  IF ~item.ok \/ item.n > Len(toks) THEN ParseFail
        ELSE IF IsP(toks[item.n], "]")
             THEN [ok |-> TRUE, v |-> JL(Append(acc, item.v)), n |-> item.n + 1]
        ELSE IF IsP(toks[item.n], ",")
             THEN ParseItems(toks, item.n + 1, Append(acc, item.v))
        ELSE ParseFail
ParseMembers(toks, i, acc) ==
    IF i + 1 > Len(toks) \/ toks[i].k # "s" \/ ~IsP(toks[i + 1], ":") THEN ParseFail
    ELSE LET val == ParseValue(toks, i + 2)
         IN  IF ~val.ok \/ val.n > Len(toks) THEN ParseFail
             ELSE IF IsP(toks[val.n], "}")
                  THEN [ok |-> TRUE, v |-> JD(DictSet(acc, toks[i].x, val.v)), n |-> val.n + 1]
             ELSE IF IsP(toks[val.n], ",")
                  THEN ParseMembers(toks, val.n + 1, DictSet(acc, toks[i].x, val.v))
             ELSE ParseFail

\* json.loads(text): ok is FALSE where it raises JSONDecodeError
Loads(text) ==
    LET r == ParseValue(text, 1)
    IN  IF r.ok /\ r.n = Len(text) + 1 THEN [ok |-> TRUE, v |-> r.v]
        ELSE [ok |-> FALSE, v |-> JS(<< >>)]

-----------------------------------------------------------------------------
(* The form of a POST /upload and what upload_files builds from it.        *)

K(name) == <<name>>

\* a plain dict of str: d.get(key, default)
Get(d, key, default) == IF key \in DOMAIN d THEN d[key] ELSE default

PersonalFields ==
    <<"full_name", "email", "phone", "location", "current_role", "professional_summary">>

\* candidate_data of upload_files: the six personal fields, '' when omitted
candidate_data_of(form) ==
    [f \in {PersonalFields[i] : i \in 1..6} |-> Get(form, f, << >>)]

\* questionnaire_data of upload_files, in the order the dict is written
questionnaire_data_of(form) ==
    LET candidate_data == candidate_data_of(form)
    IN  JD(<< <<K("full_name"), JS(candidate_data["full_name"])>>,
              <<K("email"), JS(candidate_data["email"])>>,
              <<K("phone"), JS(candidate_data["phone"])>>,
              <<K("location"), JS(candidate_data["location"])>>,
              <<K("current_role"), JS(candidate_data["current_role"])>>,
              <<K("professional_summary"), JS(candidate_data["professional_summary"])>>,
              <<K("technical_skills"), JS(Get(form, "technical_skills", << >>))>>,
              <<K("soft_skills"), JS(Get(form, "soft_skills", << >>))>>,
              <<K("years_experience"), JS(Get(form, "years_experience", << >>))>>,
              <<K("projects_description"), JS(Get(form, "projects", << >>))>> >>)

-----------------------------------------------------------------------------
(* Profile Generator.                                                      *)

CV_PROMPT_CHARS == 3000
DOC_PROMPT_CHARS == 2000

DefaultName == <<"Professional Candidate">>
DefaultTitle == <<"Professional">>
DefaultSummary == <<"Experienced professional.">>

\* [s.strip() for s in text.split(',') if s.strip()]
RECURSIVE StripAll(_)
StripAll(pieces) ==
    IF pieces = << >> THEN << >>
    ELSE <<Strip(Head(pieces), {" "})>> \o StripAll(Tail(pieces))
SkillList(text) ==
    LET kept == NonEmpty(StripAll(SplitOn(text, ",")))
    IN  JL([i \in 1..Len(kept) |-> JS(kept[i])])

\* ProfileGenerator.generate_fallback
generate_fallback(questionnaire_data) ==
    LET name == GetText(questionnaire_data, K("full_name"), DefaultName)
    IN  JD(<< <<K("personal_info"),
                JD(<< <<K("name"), JS(name)>>,
                      <<K("title"), JS(GetText(questionnaire_data, K("current_role"), DefaultTitle))>>,
                      <<K("email"), JS(GetText(questionnaire_data, K("email"), << >>))>>,
                      <<K("phone"), JS(GetText(questionnaire_data, K("phone"), << >>))>>,
                      <<K("location"), JS(GetText(questionnaire_data, K("location"), << >>))>>,
                      <<K("summary"),
                        JS(GetText(questionnaire_data, K("professional_summary"), DefaultSummary))>> >>)>>,
              <<K("skills"),
                JD(<< <<K("technical"),
                        SkillList(GetText(questionnaire_data, K("technical_skills"), << >>))>>,
                      <<K("soft"),
                        SkillList(GetText(questionnaire_data, K("soft_skills"), << >>))>> >>)>>,
              <<K("experience"),
                JL(<< JD(<< <<K("position"),
                              JS(GetText(questionnaire_data, K("current_role"), DefaultTitle))>>,
                            <<K("company"), JS(<<"Previous Company">>)>>,
                            <<K("period"), JS(<<"2020 - Present">>)>>,
                            <<K("description"),
                              JS(<<"Responsible for various professional duties.">>)>> >>) >>)>>,
              <<K("education"),
                JL(<< JD(<< <<K("degree"), JS(<<"Bachelor's Degree">>)>>,
                            <<K("institution"), JS(<<"University">>)>>,
                            <<K("year"), JS(<<"2020">>)>>,
                            <<K("description"), JS(<<"Relevant educational background">>)>> >>) >>)>>,
              <<K("projects"),
                JL(<< JD(<< <<K("name"), JS(<<"Professional Project">>)>>,
                            <<K("description"),
                              JS(<<"Significant project demonstrating skills and experience">>)>>,
                            <<K("technologies"),
                              JL(<<JS(<<"Technology 1">>), JS(<<"Technology 2">>)>>)>> >>) >>)>> >>)

\* s[start:end] of Python, start and end 0-based and possibly negative
PySlice(s, start, end) ==
    LET Norm(i) == IF i < 0 THEN (IF Len(s) + i < 0 THEN 0 ELSE Len(s) + i)
                   ELSE IF i > Len(s) THEN Len(s) ELSE i
    IN  SubSeq(s, Norm(start) + 1, Norm(end))

\* s[:n]
Take(s, n) == PySlice(s, 0, n)

\* the model of a ProfileGenerator: self.model is None, or a client whose
\* generate_content raises, or one that answers with a text
ModelAbsent == [kind |-> "absent", text |-> << >>]
ModelRaises == [kind |-> "raises", text |-> << >>]
ModelReplies(text) == [kind |-> "reply", text |-> text]

\* the prompt of generate_with_gemini: what it embeds of its inputs
prompt_of(extracted_texts, questionnaire_data) ==
    [cv |-> Take(Get(extracted_texts, CV, << >>), CV_PROMPT_CHARS),
     transcript |-> Take(Get(extracted_texts, TRANSCRIPT, << >>), DOC_PROMPT_CHARS),
     qualifications |-> Take(Get(extracted_texts, QUALIFICATIONS, << >>), DOC_PROMPT_CHARS),
     questionnaire |-> Dumps(questionnaire_data)]

\* a generator whose except clause re-raises instead of falling back
generate_with_gemini_no_recovery(model, extracted_texts, questionnaire_data) ==
    IF model.kind = "absent"
    THEN [ret |-> generate_fallback(questionnaire_data), how |-> "no_model", raised |-> FALSE]
    ELSE LET response_text == model.text
             start_idx == Find(response_text, P("{")) - 1
             end_idx == (RFind(response_text, P("}")) - 1) + 1
             json_str == PySlice(response_text, start_idx, end_idx)
             parsed == Loads(json_str)
         IN  IF model.kind = "raises" \/ ~parsed.ok
             THEN [ret |-> JD(<< >>), how |-> "raised", raised |-> TRUE]
             ELSE [ret |-> parsed.v, how |-> "parsed", raised |-> FALSE]

\* ProfileGenerator.generate_with_gemini: the profile returned, how it was
\* made, and whether an exception left the method
generate_with_gemini(model, extracted_texts, questionnaire_data) ==
    IF model.kind = "absent"
    THEN [ret |-> generate_fallback(questionnaire_data), how |-> "no_model", raised |-> FALSE]
    ELSE LET response_text == model.text
             start_idx == Find(response_text, P("{")) - 1
             end_idx == (RFind(response_text, P("}")) - 1) + 1
             json_str == PySlice(response_text, start_idx, end_idx)
             parsed == Loads(json_str)
         IN  IF model.kind = "raises" \/ ~parsed.ok
             THEN [ret |-> generate_fallback(questionnaire_data), how |-> "except",
                   raised |-> FALSE]
             ELSE [ret |-> parsed.v, how |-> "parsed", raised |-> FALSE]

-----------------------------------------------------------------------------
(* Candidate Store.                                                        *)

\* A row of candidate_profiles. The two JSON columns hold text.
Row(candidate_id, candidate_data, file_paths, questionnaire_data, generated_profile) ==
    [candidate_id |-> candidate_id,
     full_name |-> Get(candidate_data, "full_name", << >>),
     email |-> Get(candidate_data, "email", << >>),
     phone |-> Get(candidate_data, "phone", << >>),
     location |-> Get(candidate_data, "location", << >>),
     current_role |-> Get(candidate_data, "current_role", << >>),
     professional_summary |-> Get(candidate_data, "professional_summary", << >>),
     cv_file_path |-> Get(file_paths, CV, << >>),
     transcript_file_path |-> Get(file_paths, TRANSCRIPT, << >>),
     qualifications_file_path |-> Get(file_paths, QUALIFICATIONS, << >>),
     picture_file_path |-> Get(file_paths, PICTURE, << >>),
     questionnaire_answers |-> Dumps(questionnaire_data),
     generated_profile |-> Dumps(generated_profile)]

\* where a storage operation may fail
SaveFaults == {"none", "connect", "cursor", "execute", "commit", "close"}
GetFaults == {"none", "connect", "cursor", "execute", "close"}

\* str(uuid.uuid4()): an identifier no row of the table carries
IdSpace == 1..NumIds
FreshIds(tbl) == IdSpace \ {tbl[i].candidate_id : i \in 1..Len(tbl)}

\* the connection bookkeeping of one operation: connections acquired,
\* conn.close() calls made on one, and whether the finally clause ran
\* conn.close() with conn never bound
Conn(fault) ==
    [opened |-> IF fault = "connect" THEN 0 ELSE 1,
     closes |-> IF fault = "connect" THEN 0 ELSE 1,
     close_unbound |-> fault = "connect"]

\* the exception that leaves the operation after its finally clause: the
\* one in flight, replaced by what conn.close() raises when that fails
AfterFinally(fault, in_flight) ==
    IF fault = "connect" THEN "UnboundLocalError"
    ELSE IF fault = "close" THEN "pyodbc.Error: close"
    ELSE in_flight

\* a save that writes over the newest row instead of adding one
save_candidate_overwrites(tbl, candidate_data, file_paths, questionnaire_data, generated_profile, fault, uuid) ==
    LET candidate_id == uuid
        committed == fault \in {"none", "close"}
        row == Row(candidate_id, candidate_data, file_paths, questionnaire_data,
                   generated_profile)
    IN  [ret |-> IF fault = "none" THEN candidate_id ELSE 0,
         raised |-> AfterFinally(fault, IF committed THEN "none" ELSE "pyodbc.Error"),
         committed |-> committed,
         table |-> IF ~committed THEN tbl
                   ELSE IF tbl = << >> THEN <<row>>
                   ELSE [tbl EXCEPT ![Len(tbl)] = row],
         conn |-> Conn(fault)]

\* a save that stores the questionnaire where the profile belongs
save_candidate_swaps_columns(tbl, candidate_data, file_paths, questionnaire_data, generated_profile, fault, uuid) ==
    LET candidate_id == uuid
        committed == fault \in {"none", "close"}
    IN  [ret |-> IF fault = "none" THEN candidate_id ELSE 0,
         raised |-> AfterFinally(fault, IF committed THEN "none" ELSE "pyodbc.Error"),
         committed |-> committed,
         table |-> IF committed
                   THEN Append(tbl, Row(candidate_id, candidate_data, file_paths,
                                        generated_profile, questionnaire_data))
                   ELSE tbl,
         conn |-> Conn(fault)]

\* DatabaseManager.save_candidate, failing at `fault` and drawing `uuid`:
\* what it returns or raises, whether its row is committed, the table after.
\* The row is in the table once execute and commit have both gone through;
\* a connection closed before its commit rolls the insert back.
save_candidate(tbl, candidate_data, file_paths, questionnaire_data, generated_profile, fault, uuid) ==
    LET candidate_id == uuid
        committed == fault \in {"none", "close"}
    IN  [ret |-> IF fault = "none" THEN candidate_id ELSE 0,
         raised |-> AfterFinally(fault, IF committed THEN "none" ELSE "pyodbc.Error"),
         committed |-> committed,
         table |-> IF committed
                   THEN Append(tbl, Row(candidate_id, candidate_data, file_paths,
                                        questionnaire_data, generated_profile))
                   ELSE tbl,
         conn |-> Conn(fault)]

\* the record get_candidate builds from a row
NoRecord ==
    [personal_info |-> [name |-> << >>, email |-> << >>, phone |-> << >>,
                        location |-> << >>, title |-> << >>, summary |-> << >>],
     file_paths |-> [tag \in TagSet |-> << >>],
     questionnaire_answers |-> JD(<< >>),
     generated_profile |-> JD(<< >>)]
\* json.loads(text) if text else {}
LoadsOrEmpty(text) == IF text # << >> THEN Loads(text) ELSE [ok |-> TRUE, v |-> JD(<< >>)]
\* the dict get_candidate returns for a row; ok is FALSE where json.loads raises
RecordOf(row) ==
    LET answers == LoadsOrEmpty(row.questionnaire_answers)
        profile == LoadsOrEmpty(row.generated_profile)
    IN  IF ~answers.ok \/ ~profile.ok THEN [ok |-> FALSE, rec |-> NoRecord]
        ELSE [ok |-> TRUE,
              rec |-> [personal_info |->
                          [name |-> row.full_name, email |-> row.email, phone |-> row.phone,
                           location |-> row.location, title |-> row.current_role,
                           summary |-> row.professional_summary],
                       file_paths |->
                          [tag \in TagSet |->
                              IF tag = CV THEN row.cv_file_path
                              ELSE IF tag = TRANSCRIPT THEN row.transcript_file_path
                              ELSE IF tag = QUALIFICATIONS THEN row.qualifications_file_path
                              ELSE row.picture_file_path],
                       questionnaire_answers |-> answers.v,
                       generated_profile |-> profile.v]]

\* DatabaseManager.get_candidate, failing at `fault`: the record or None it
\* returns, or what it raises
get_candidate(tbl, candidate_id, fault) ==
    LET matches == {i \in 1..Len(tbl) : tbl[i].candidate_id = candidate_id}
        \* cursor.fetchone(): the first matching row
        row == tbl[CHOOSE i \in matches : \A j \in matches : i <= j]
        built == IF matches = {} THEN [ok |-> FALSE, rec |-> NoRecord] ELSE RecordOf(row)
        \* not found, or the except clause: return None
        found == fault \in {"none", "close"} /\ built.ok
    IN  [found |-> found /\ fault = "none",
         rec |-> IF found /\ fault = "none" THEN built.rec ELSE NoRecord,
         raised |-> AfterFinally(fault, "none"),
         conn |-> Conn(fault)]

-----------------------------------------------------------------------------
(* Text Extractor.                                                         *)

\* the text pdfplumber reads out of the bytes of a stored file
TextOf(data) == <<data>>

\* ProfileGenerator.extract_text_from_pdf on the upload directory as it is
\* now; outcome "raises" is pdfplumber failing on the file
extract_text_from_pdf(file_path, dir, outcome) ==
    IF file_path = << >> \/ file_path \notin DOMAIN dir THEN [text |-> << >>, raised |-> FALSE]
    ELSE IF outcome = "raises" THEN [text |-> << >>, raised |-> FALSE]
    ELSE [text |-> TextOf(dir[file_path]), raised |-> FALSE]

-----------------------------------------------------------------------------
(* Web Orchestrator: upload_files and view_profile, one request per slot.  *)
(* upload_files runs in steps (each file saved, each text extracted, the   *)
(* profile generated, the record saved) so that requests interleave.       *)

NoForm == [f \in {} |-> << >>]
NoParts == [tag \in {} |-> NoneFile]
NoPaths == [tag \in {} |-> << >>]
NoResponse == [kind |-> "none", status |-> 0, id |-> 0, profile |-> JD(<< >>), photo_url |-> << >>]
Redirect(candidate_id) == [NoResponse EXCEPT !.kind = "redirect", !.status = 302, !.id = candidate_id]
ErrorPage == [NoResponse EXCEPT !.kind = "error", !.status = 500]
NotFound == [NoResponse EXCEPT !.kind = "not_found", !.status = 404]

IdleRq ==
    [pc |-> "idle", kind |-> "none", form |-> NoForm, files |-> NoParts,
     candidate_data |-> NoForm, questionnaire_data |-> JD(<< >>),
     tag |-> 0, file_paths |-> NoPaths, extracted_texts |-> NoPaths,
     extract_failed |-> FALSE, model |-> ModelAbsent, how |-> "none",
     generated_profile |-> JD(<< >>), save_called |-> FALSE, save_fault |-> "none",
     committed |-> FALSE, added |-> 0, session |-> 0, response |-> NoResponse]

\* the bytes a request's client uploads
DataOf(r) == IF r = 1 THEN "bytes of client 1" ELSE "bytes of client 2"

\* upload_files, lines 330-355: the form is read
StartUpload(r, form, files) ==
    /\ rq[r].pc = "idle"
    /\ rq' = [rq EXCEPT ![r] = [IdleRq EXCEPT !.pc = "store", !.kind = "upload",
                                  !.form = form, !.files = files,
                                  !.candidate_data = candidate_data_of(form),
                                  !.questionnaire_data = questionnaire_data_of(form),
                                  !.tag = 1]]
    /\ UNCHANGED <<uploads, table, dbop, writes, saved, call>>

\* after the file of tag i: its text is extracted (the three documents), or
\* the next file is handled, or the profile is generated
AfterStore(i, stored) ==
    IF stored /\ i <= 3 THEN [pc |-> "extract", tag |-> i]
    ELSE IF i < 4 THEN [pc |-> "store", tag |-> i + 1]
    ELSE [pc |-> "generate", tag |-> 0]

\* upload_files, lines 358-362 (and 366-370, 374-378, 382-386): one file saved
StoreStep(r) ==
    /\ rq[r].pc = "store"
    /\ LET i == rq[r].tag
           file_type == Tags[i]
           sent == file_type \in DOMAIN rq[r].files
           file == IF sent THEN rq[r].files[file_type] ELSE NoneFile
           res == save_uploaded_file(file, file_type, uploads)
           stored == sent /\ res.ret.some
           next == AfterStore(i, stored)
       IN  /\ uploads' = IF sent THEN res.dir ELSE uploads
           /\ writes' = IF stored
                        THEN writes \cup {[r |-> r, tag |-> file_type,
                                           filename |-> file.filename, path |-> res.ret.v]}
                        ELSE writes
           /\ rq' = [rq EXCEPT ![r].pc = next.pc, ![r].tag = next.tag,
                               ![r].file_paths =
                                   IF stored
                                   THEN [t \in DOMAIN @ \cup {file_type} |->
                                            IF t = file_type THEN res.ret.v ELSE @[t]]
                                   ELSE @]
    /\ UNCHANGED <<table, dbop, saved, call>>

\* upload_files, line 363 (and 371, 379): the text of the file just saved
ExtractStep(r, outcome) ==
    /\ rq[r].pc = "extract"
    /\ LET i == rq[r].tag
           file_type == Tags[i]
           res == extract_text_from_pdf(rq[r].file_paths[file_type], uploads, outcome)
       IN  rq' = IF res.raised
                 THEN [rq EXCEPT ![r].pc = "done", ![r].response = ErrorPage]
                 ELSE [rq EXCEPT ![r].pc = "store", ![r].tag = i + 1,
                                 ![r].extract_failed = @ \/ outcome = "raises",
                                 ![r].extracted_texts =
                                     [t \in DOMAIN @ \cup {file_type} |->
                                         IF t = file_type THEN res.text ELSE @[t]]]
    /\ UNCHANGED <<uploads, table, dbop, writes, saved, call>>

\* upload_files, line 389: the profile generated
GenerateStep(r, model) ==
    /\ rq[r].pc = "generate"
    /\ LET res == generate_with_gemini(model, rq[r].extracted_texts,
                                       rq[r].questionnaire_data)
       IN  rq' = IF res.raised
                 THEN [rq EXCEPT ![r].pc = "done", ![r].model = model,
                                 ![r].response = ErrorPage]
                 ELSE [rq EXCEPT ![r].pc = "save", ![r].model = model, ![r].how = res.how,
                                 ![r].generated_profile = res.ret]
    /\ UNCHANGED <<uploads, table, dbop, writes, saved, call>>

\* upload_files, lines 392-404: the record saved, the identifier put in the
\* session (app.secret_key is always set, line 20) and the redirect sent,
\* or the error page
SaveStep(r, fault, uuid) ==
    /\ rq[r].pc = "save"
    /\ uuid \in FreshIds(table)
    /\ LET res == save_candidate(table, rq[r].candidate_data, rq[r].file_paths,
                                 rq[r].questionnaire_data, rq[r].generated_profile,
                                 fault, uuid)
       IN  /\ table' = res.table
           /\ rq' = [rq EXCEPT ![r].pc = "done", ![r].save_called = TRUE,
                               ![r].save_fault = fault,
                               ![r].committed = res.committed,
                               ![r].added = Len(res.table) - Len(table),
                               ![r].session = IF res.raised = "none" THEN res.ret ELSE 0,
                               ![r].response = IF res.raised = "none" THEN Redirect(res.ret)
                                               ELSE ErrorPage]
    /\ UNCHANGED <<uploads, dbop, writes, saved, call>>

\* os.path.basename
Basename(path) == IF Contains(path, "/") THEN RSplitLast(path, "/") ELSE path

\* view_profile: GET /profile/<candidate_id>
ViewProfile(r, candidate_id, fault) ==
    /\ rq[r].pc = "idle"
    /\ LET res == get_candidate(table, candidate_id, fault)
           picture == res.rec.file_paths[PICTURE]
           page == [NoResponse EXCEPT
                       !.kind = "profile", !.status = 200, !.id = candidate_id,
                       !.profile = res.rec.generated_profile,
                       !.photo_url = IF picture # << >>
                                     THEN <<"/">> \o UPLOAD_FOLDER \o <<"/">> \o Basename(picture)
                                     ELSE <<"/static/default-avatar.png">>]
       IN  rq' = [rq EXCEPT ![r] = [IdleRq EXCEPT
                      !.pc = "done", !.kind = "view",
                      !.response = IF res.raised # "none" THEN ErrorPage
                                   ELSE IF ~res.found THEN NotFound
                                   ELSE page]]
    /\ UNCHANGED <<uploads, table, dbop, writes, saved, call>>

\* the response is out; the next request takes the slot
NextRequest(r) ==
    /\ rq[r].pc = "done"
    /\ rq' = [rq EXCEPT ![r] = IdleRq]
    /\ UNCHANGED <<uploads, table, dbop, writes, saved, call>>

-----------------------------------------------------------------------------
(* Specification SpecIntake: one direct call of save_uploaded_file on a    *)
(* file and a type tag drawn from bounded sets.                            *)

NoFiles == [p \in {} |-> "none"]

StemChars == {"a", ".", " ", "/"}
ExtSamples ==
    allowed_extensions \cup
    {<<"P", "D", "F">>, <<"P", "d", "f">>, <<"J", "p", "E", "g">>, <<"D", "O", "C", "X">>,
     <<"e", "x", "e">>, <<"p", "d">>, <<"p", "d", "f", "x">>, <<"p", "d", "f", " ">>}
Suffixes == {<< >>} \cup ExtSamples \cup {<<".">> \o e : e \in ExtSamples}
IntakeNames == {stem \o suffix : stem \in SeqsUpTo(StemChars, MaxStemLen), suffix \in Suffixes}
IntakeFiles == {NoneFile} \cup {FileStorage(n, "new") : n \in IntakeNames}

\* an upload directory that already holds one file
OneOldFile == [p \in {stored_path(FileStorage(<<"a", ".">> \o PDF, "old"), CV)} |-> "old"]

NoCall == [fn |-> "none", pc |-> "done"]
NoDbOp == [op |-> "none"]
NoSaves == [i \in {} |-> 0]

InitIntake ==
    /\ uploads \in {NoFiles, OneOldFile}
    /\ table = << >>
    /\ rq = << >>
    /\ dbop = NoDbOp
    /\ writes = {}
    /\ saved = NoSaves
    /\ \E file \in IntakeFiles, file_type \in TagSet :
          call = [fn |-> "save_uploaded_file", pc |-> "ready", file |-> file,
                  file_type |-> file_type, before |-> uploads, ret |-> None]

\* the call of save_uploaded_file(file, file_type)
StoreCall ==
    /\ call.fn = "save_uploaded_file"
    /\ call.pc = "ready"
    /\ LET r == save_uploaded_file(call.file, call.file_type, uploads)
       IN  /\ uploads' = r.dir
           /\ call' = [call EXCEPT !.pc = "done", !.ret = r.ret]
    /\ UNCHANGED <<table, rq, dbop, writes, saved>>

NextIntake == StoreCall

SpecIntake == InitIntake /\ [][NextIntake]_vars

\* the upper-case form of a lower-case letter
UpperOf(c) ==
    IF \E i \in 1..26 : LowerCase[i] = c
    THEN UpperCase[CHOOSE i \in 1..26 : LowerCase[i] = c]
    ELSE c

\* the filename has a last dot at i and what follows it spells ext in any case
SpellsExtension(filename, i, ext) ==
    /\ filename[i] = "."
    /\ \A j \in (i + 1)..Len(filename) : filename[j] # "."
    /\ Len(filename) - i = Len(ext)
    /\ \A k \in 1..Len(ext) : filename[i + k] \in {ext[k], UpperOf(ext[k])}

IntakeAccepts(file) ==
    /\ ~file.isNone
    /\ file.filename # << >>
    /\ \E i \in 1..Len(file.filename), ext \in allowed_extensions :
          SpellsExtension(file.filename, i, ext)

\* C6: save_uploaded_file returns a stored path, and writes the file there,
\* exactly when a file is present and the text after the last dot of its
\* filename is, in any letter case, one of pdf, png, jpg, jpeg, doc, docx;
\* otherwise it returns None and leaves the upload directory as it was.
C6_StoreIffAllowedExtension ==
    (call.fn = "save_uploaded_file" /\ call.pc = "done") =>
        IF IntakeAccepts(call.file)
        THEN /\ call.ret.some
             /\ call.ret.v \in DOMAIN uploads
             /\ uploads[call.ret.v] = call.file.data
        ELSE /\ ~call.ret.some
             /\ uploads = call.before

\* an upper-case extension after a second dot was accepted and written
C6_Witness ==
    /\ call.fn = "save_uploaded_file"
    /\ call.pc = "done"
    /\ call.file.filename = <<"a", ".", ".", "P", "d", "f">>
    /\ call.ret.some
    /\ call.ret.v \in DOMAIN uploads
    /\ uploads[call.ret.v] = "new"

-----------------------------------------------------------------------------
(* Specification SpecGenerate: one direct call of generate_with_gemini on  *)
(* the questionnaire of a form, with the model absent, raising, or         *)
(* answering with a text.                                                  *)

\* what a form field may carry: omitted, blank, or a value
FieldChoices(field, value) ==
    {[f \in {} |-> << >>], [f \in {field} |-> << >>], [f \in {field} |-> value]}

\* functions with disjoint domains, merged
Merge(f, g) == [x \in DOMAIN f \cup DOMAIN g |-> IF x \in DOMAIN f THEN f[x] ELSE g[x]]

SkillTexts == {<<"Python", ",", " ", "SQL", ",", " ", " ", "Go">>, <<" ", ",", ",">>}

Forms ==
    {Merge(Merge(Merge(n, r), Merge(u, k)), [f \in {"email"} |-> <<"jane@example.com">>]) :
        n \in FieldChoices("full_name", <<"Jane Doe">>),
        r \in FieldChoices("current_role", <<"Engineer">>),
        u \in FieldChoices("professional_summary", <<"Builds things.">>),
        k \in {[f \in {} |-> << >>]} \cup {[f \in {"technical_skills"} |-> t] : t \in SkillTexts}}

\* a reply of the right shape, as the prompt asks for
GoodProfile ==
    JD(<< <<K("personal_info"),
            JD(<< <<K("name"), JS(<<"J. Doe">>)>>, <<K("title"), JS(<<"Data Engineer">>)>>,
                  <<K("email"), JS(<<"jane@example.com">>)>>, <<K("phone"), JS(<< >>)>>,
                  <<K("location"), JS(<< >>)>>, <<K("summary"), JS(<<"Seasoned.">>)>> >>)>>,
          <<K("skills"),
            JD(<< <<K("technical"), JL(<<JS(<<"SQL">>)>>)>>, <<K("soft"), JL(<< >>)>> >>)>>,
          <<K("experience"), JL(<< >>)>>,
          <<K("education"), JL(<< >>)>>,
          <<K("projects"), JL(<< >>)>> >>)

ReplyTokens == {P("{"), P("}"), P(":"), StrTok(<<"k">>), Prose}
Replies ==
    SeqsUpTo(ReplyTokens, MaxReplyLen) \cup
    {Dumps(GoodProfile),
     <<Prose>> \o Dumps(GoodProfile) \o <<Prose>>,
     Dumps(GoodProfile) \o <<Prose>> \o Dumps(GoodProfile),
     SubSeq(Dumps(GoodProfile), 1, 9),
     Dumps(JD(<< <<K("personal_info"), JS(<<"Jane">>)>> >>)),
     Dumps(JD(<< <<K("error"), JL(<<JS(<<"quota">>)>>)>> >>))}
Models == {ModelAbsent, ModelRaises} \cup {ModelReplies(t) : t \in Replies}

NoTexts == [d \in {} |-> << >>]
ExtractedSamples == {NoTexts, [d \in {CV} |-> <<"Jane Doe", " ", "CV">>]}

InitGenerate ==
    /\ uploads = NoFiles
    /\ table = << >>
    /\ rq = << >>
    /\ dbop = NoDbOp
    /\ writes = {}
    /\ saved = NoSaves
    /\ \E form \in Forms, model \in Models, extracted_texts \in ExtractedSamples :
          call = [fn |-> "generate_with_gemini", pc |-> "ready", form |-> form,
                  questionnaire_data |-> questionnaire_data_of(form),
                  extracted_texts |-> extracted_texts, model |-> model,
                  prompt |-> prompt_of(NoTexts, JD(<< >>)),
                  ret |-> JD(<< >>), how |-> "none", raised |-> FALSE]

\* the call of generate_with_gemini(extracted_texts, questionnaire_data)
GenerateCall ==
    /\ call.fn = "generate_with_gemini"
    /\ call.pc = "ready"
    /\ LET r == generate_with_gemini(call.model, call.extracted_texts, call.questionnaire_data)
       IN  call' = [call EXCEPT !.pc = "done", !.ret = r.ret, !.how = r.how,
                                !.raised = r.raised,
                                !.prompt = IF call.model.kind = "absent" THEN @
                                           ELSE prompt_of(call.extracted_texts,
                                                          call.questionnaire_data)]
    /\ UNCHANGED <<uploads, table, rq, dbop, writes, saved>>

NextGenerate == GenerateCall

SpecGenerate == InitGenerate /\ [][NextGenerate]_vars

\* the fixed shape of a generated profile
IsListAt(x, key) == HasKey(x, K(key)) /\ Lookup(x, K(key)).t = "list"
HasProfileShape(x) ==
    /\ x.t = "dict"
    /\ Keys(x) = {K("personal_info"), K("skills"), K("experience"), K("education"),
                  K("projects")}
    /\ Lookup(x, K("personal_info")).t = "dict"
    /\ Keys(Lookup(x, K("personal_info"))) =
          {K("name"), K("title"), K("email"), K("phone"), K("location"), K("summary")}
    /\ Lookup(x, K("skills")).t = "dict"
    /\ Keys(Lookup(x, K("skills"))) = {K("technical"), K("soft")}
    /\ IsListAt(Lookup(x, K("skills")), "technical")
    /\ IsListAt(Lookup(x, K("skills")), "soft")
    /\ IsListAt(x, "experience")
    /\ IsListAt(x, "education")
    /\ IsListAt(x, "projects")

\* C1: whatever the inputs and whatever the model does (absent, raises,
\* answers any text), generate_with_gemini returns a record of exactly the
\* fixed profile shape, after the fallback and after a parsed reply alike.
C1_AlwaysProfileShape ==
    (call.fn = "generate_with_gemini" /\ call.pc = "done") =>
        /\ ~call.raised
        /\ HasProfileShape(call.ret)

\* C1, the part the code keeps: the fallback's record has the fixed shape
C1_FallbackHasProfileShape ==
    (call.fn = "generate_with_gemini" /\ call.pc = "done" /\ call.how # "parsed") =>
        /\ ~call.raised
        /\ HasProfileShape(call.ret)

\* C8: where full_name, current_role or professional_summary is blank in the
\* answers, the fallback puts 'Professional Candidate', 'Professional' and
\* 'Experienced professional.' in personal_info; a non-blank answer is copied.
FallbackField(field) == Lookup(Lookup(call.ret, K("personal_info")), K(field)).s
OrDefault(answer, default) == IF answer = << >> THEN default ELSE answer
C8_BlankAnswersGetDefaults ==
    (call.fn = "generate_with_gemini" /\ call.pc = "done" /\ call.how = "no_model") =>
        LET answers == call.questionnaire_data
        IN  /\ FallbackField("name") =
                  OrDefault(Lookup(answers, K("full_name")).s, DefaultName)
            /\ FallbackField("title") =
                  OrDefault(Lookup(answers, K("current_role")).s, DefaultTitle)
            /\ FallbackField("summary") =
                  OrDefault(Lookup(answers, K("professional_summary")).s, DefaultSummary)

\* C8, the part the code keeps: a non-blank answer is copied verbatim
C8_NonBlankAnswersCopied ==
    (call.fn = "generate_with_gemini" /\ call.pc = "done" /\ call.how # "parsed") =>
        LET answers == call.questionnaire_data
        IN  /\ Lookup(answers, K("full_name")).s # << >> =>
                  FallbackField("name") = Lookup(answers, K("full_name")).s
            /\ Lookup(answers, K("current_role")).s # << >> =>
                  FallbackField("title") = Lookup(answers, K("current_role")).s
            /\ Lookup(answers, K("professional_summary")).s # << >> =>
                  FallbackField("summary") = Lookup(answers, K("professional_summary")).s

-----------------------------------------------------------------------------
(* Specification SpecStore: save_candidate and get_candidate called        *)
(* directly, on arguments drawn from bounded sets, failing anywhere.       *)

JaneForm ==
    [f \in {"full_name", "email", "current_role", "technical_skills"} |->
        IF f = "full_name" THEN <<"Jane Doe">>
        ELSE IF f = "email" THEN <<"jane@example.com">>
        ELSE IF f = "current_role" THEN <<"Engineer">>
        ELSE <<"Python", ",", " ", "SQL">>]
BlankForm == [f \in {"full_name"} |-> << >>]

\* the path save_uploaded_file gives an upload "a.pdf" of a type
SamplePath(tag) == stored_path(FileStorage(<<"a", ".">> \o PDF, "new"), tag)

\* file_paths: none of the four keys, all of them, or two of them
FilePathSamples ==
    UNION {[S -> {0}] : S \in {{}, {CV, PICTURE}, {TRANSCRIPT, QUALIFICATIONS}, TagSet}}
PathsOn(f) == [tag \in DOMAIN f |-> SamplePath(tag)]

StoreInputs ==
    {[candidate_data |-> c.cd, file_paths |-> PathsOn(f),
      questionnaire_data |-> c.q, generated_profile |-> g] :
        c \in {[cd |-> candidate_data_of(JaneForm), q |-> questionnaire_data_of(JaneForm)],
               [cd |-> [k \in {"full_name"} |-> <<"Jane Doe">>], q |-> JD(<< >>)]},
        f \in FilePathSamples,
        g \in {GoodProfile, JD(<< >>)}}

\* rows the table may hold from before: one whose JSON columns are empty,
\* one whose generated_profile is not JSON
EmptyColumnsRow ==
    [Row(NumIds, candidate_data_of(JaneForm), NoTexts, JD(<< >>), JD(<< >>))
        EXCEPT !.questionnaire_answers = << >>, !.generated_profile = << >>]
CorruptRow ==
    [Row(NumIds, candidate_data_of(JaneForm), NoTexts, JD(<< >>), JD(<< >>))
        EXCEPT !.generated_profile = <<P("{"), Prose>>]
LegacyTables == {<<EmptyColumnsRow>>, <<CorruptRow>>}
LegacyInput == CHOOSE in \in StoreInputs : in.file_paths = NoTexts /\ in.generated_profile = GoodProfile /\ in.questionnaire_data = JD(<< >>)

DbOp(op, id, fault, r, found, rec) ==
    [op |-> op, id |-> id, fault |-> fault, ret |-> r.ret, found |-> found, rec |-> rec,
     raised |-> r.raised, committed |-> r.committed, conn |-> r.conn]

InitStore ==
    /\ uploads = NoFiles
    /\ rq = << >>
    /\ dbop = NoDbOp
    /\ writes = {}
    /\ saved = NoSaves
    /\ \/ /\ table = << >>
          /\ \E in \in StoreInputs : call = [fn |-> "store", pc |-> "ready", args |-> in]
       \/ /\ table \in LegacyTables
          /\ call = [fn |-> "store", pc |-> "ready", args |-> LegacyInput]

\* a direct call of save_candidate on the arguments drawn
DbSave(fault, uuid) ==
    /\ call.fn = "store"
    /\ Len(table) < MaxStoreRows
    /\ uuid \in FreshIds(table)
    /\ LET a == call.args
           r == save_candidate(table, a.candidate_data, a.file_paths, a.questionnaire_data,
                               a.generated_profile, fault, uuid)
       IN  /\ table' = r.table
           /\ dbop' = DbOp("save_candidate", uuid, fault, r, FALSE, NoRecord)
           /\ saved' = IF r.raised = "none"
                       THEN [i \in DOMAIN saved \cup {r.ret} |->
                                IF i = r.ret THEN a ELSE saved[i]]
                       ELSE saved
    /\ UNCHANGED <<uploads, rq, writes, call>>

\* a direct call of get_candidate on any identifier
DbGet(candidate_id, fault) ==
    /\ call.fn = "store"
    /\ LET r == get_candidate(table, candidate_id, fault)
       IN  dbop' = DbOp("get_candidate", candidate_id, fault,
                        [ret |-> 0, raised |-> r.raised, committed |-> FALSE, conn |-> r.conn],
                        r.found, r.rec)
    /\ UNCHANGED <<uploads, table, rq, writes, saved, call>>

NextStore ==
    \/ \E fault \in SaveFaults, uuid \in IdSpace : DbSave(fault, uuid)
    \/ \E candidate_id \in IdSpace, fault \in GetFaults : DbGet(candidate_id, fault)

SpecStore == InitStore /\ [][NextStore]_vars

\* C3: get_candidate returns None and never raises when no row matches the
\* identifier and when anything fails during retrieval: acquiring the
\* connection, the query, deserializing a stored field.
NoRowMatches(candidate_id) == \A i \in 1..Len(table) : table[i].candidate_id # candidate_id
RowUndecodable(candidate_id) ==
    \E i \in 1..Len(table) : table[i].candidate_id = candidate_id /\ table[i] = CorruptRow
C3_GetReturnsNoneNeverRaises ==
    (dbop.op = "get_candidate"
        /\ (NoRowMatches(dbop.id) \/ RowUndecodable(dbop.id)
            \/ dbop.fault \in {"connect", "cursor", "execute"})) =>
        /\ dbop.raised = "none"
        /\ ~dbop.found

\* C3, the part the code keeps: with the connection acquired and closed,
\* a missing row, a failed query and an undecodable field all give None
C3_GetReturnsNoneOnceConnected ==
    (dbop.op = "get_candidate" /\ dbop.fault \notin {"connect", "close"}
        /\ (NoRowMatches(dbop.id) \/ RowUndecodable(dbop.id)
            \/ dbop.fault \in {"cursor", "execute"})) =>
        /\ dbop.raised = "none"
        /\ ~dbop.found

\* C7: each save_candidate and get_candidate acquires at most one
\* connection and releases each acquired connection exactly once on every
\* exit path; when acquisition fails no release is attempted and the error
\* the caller sees is the acquisition error.
C7_ConnectionReleasedOncePerOperation ==
    dbop.op # "none" =>
        /\ dbop.conn.opened <= 1
        /\ dbop.conn.closes = dbop.conn.opened
        /\ ~dbop.conn.close_unbound
        /\ dbop.fault = "connect" => dbop.raised # "UnboundLocalError"

\* C5 as stated: get_candidate(save_candidate(...)) returns the personal
\* fields, the file paths, the questionnaire answers and the generated
\* profile equal, field for field, to the arguments of save_candidate.
C5_RoundTripEqualsInputs ==
    (dbop.op = "get_candidate" /\ dbop.fault = "none" /\ dbop.id \in DOMAIN saved) =>
        LET a == saved[dbop.id]
        IN  /\ dbop.found
            /\ dbop.rec.file_paths = a.file_paths
            /\ dbop.rec.questionnaire_answers = a.questionnaire_data
            /\ dbop.rec.generated_profile = a.generated_profile

\* C5 amended: the record get_candidate returns for an identifier that
\* save_candidate returned carries, for each personal field and each of the
\* four file-path keys, the value passed to save_candidate, or '' where the
\* argument had no such key; the questionnaire answers and the generated
\* profile are equal to the arguments.
C5_RoundTripWithBlankDefaults ==
    (dbop.op = "get_candidate" /\ dbop.fault = "none" /\ dbop.id \in DOMAIN saved) =>
        LET a == saved[dbop.id]
            info == dbop.rec.personal_info
        IN  /\ dbop.found
            /\ info.name = Get(a.candidate_data, "full_name", << >>)
            /\ info.email = Get(a.candidate_data, "email", << >>)
            /\ info.phone = Get(a.candidate_data, "phone", << >>)
            /\ info.location = Get(a.candidate_data, "location", << >>)
            /\ info.title = Get(a.candidate_data, "current_role", << >>)
            /\ info.summary = Get(a.candidate_data, "professional_summary", << >>)
            /\ \A tag \in TagSet :
                  dbop.rec.file_paths[tag] = Get(a.file_paths, tag, << >>)
            /\ dbop.rec.questionnaire_answers = a.questionnaire_data
            /\ dbop.rec.generated_profile = a.generated_profile

\* a saved record with two of the four file paths and a full profile was
\* read back under the identifier save_candidate returned
C5_Witness ==
    /\ dbop.op = "get_candidate"
    /\ dbop.fault = "none"
    /\ dbop.id \in DOMAIN saved
    /\ dbop.found
    /\ DOMAIN saved[dbop.id].file_paths = {CV, PICTURE}
    /\ dbop.rec.file_paths[CV] = SamplePath(CV)
    /\ dbop.rec.file_paths[TRANSCRIPT] = << >>
    /\ dbop.rec.generated_profile = GoodProfile
    /\ dbop.rec.questionnaire_answers = questionnaire_data_of(JaneForm)

-----------------------------------------------------------------------------
(* Specification SpecUpload: one client sends upload and profile-view      *)
(* requests one after another; extraction, the model and the store may     *)
(* fail anywhere.                                                          *)

Named(name, data) == FileStorage(name, data)
UploadParts(r) ==
    {NoParts,
     [tag \in {CV, PICTURE} |->
         IF tag = PICTURE THEN Named(<<"m", "e", ".", "P", "N", "G">>, DataOf(r))
         ELSE Named(<<"c", "v", ".">> \o PDF, DataOf(r))]}

GoodReply == <<Prose>> \o Dumps(GoodProfile) \o <<Prose>>
NoBraceReply == <<Prose>>
NotJsonReply == <<P("{"), Prose, P("}")>>
FailedReplies == {NoBraceReply, NotJsonReply}
UploadModels ==
    {ModelAbsent, ModelRaises} \cup
    {ModelReplies(t) : t \in {GoodReply} \cup FailedReplies}

InitUpload ==
    /\ uploads = NoFiles
    /\ table = << >>
    /\ rq = [r \in {1} |-> IdleRq]
    /\ dbop = NoDbOp
    /\ writes = {}
    /\ saved = NoSaves
    /\ call = NoCall

NextUpload ==
    \/ \E r \in DOMAIN rq, form \in {JaneForm, BlankForm} :
          \E files \in UploadParts(r) :
              Len(table) < MaxUploadRows /\ StartUpload(r, form, files)
    \/ \E r \in DOMAIN rq : StoreStep(r)
    \/ \E r \in DOMAIN rq, outcome \in {"text", "raises"} : ExtractStep(r, outcome)
    \/ \E r \in DOMAIN rq, model \in UploadModels : GenerateStep(r, model)
    \/ \E r \in DOMAIN rq, fault \in SaveFaults, uuid \in IdSpace : SaveStep(r, fault, uuid)
    \/ \E r \in DOMAIN rq, candidate_id \in IdSpace, fault \in GetFaults :
          ViewProfile(r, candidate_id, fault)
    \/ \E r \in DOMAIN rq : NextRequest(r)

SpecUpload == InitUpload /\ [][NextUpload]_vars

\* C2: in a POST /upload no extraction failure and no generation failure
\* (model raises, reply without braces, reply that is not JSON) reaches the
\* orchestrator: the request goes on to call save_candidate with a profile,
\* and after a failed model call that profile is exactly what
\* generate_fallback gives for the same questionnaire answers.
ModelCallFailed(q) ==
    \/ q.model.kind = "raises"
    \/ q.model.kind = "reply" /\ q.model.text \in FailedReplies
C2_SubStepFailuresRecovered ==
    \A r \in DOMAIN rq :
        rq[r].kind = "upload" =>
            /\ rq[r].pc = "done" => rq[r].save_called
            /\ (rq[r].pc \in {"save", "done"} /\ ModelCallFailed(rq[r])) =>
                  rq[r].generated_profile = generate_fallback(rq[r].questionnaire_data)

\* an upload whose CV could not be read and whose model call failed was
\* saved with the fallback profile and answered with the redirect
C2_Witness ==
    \E r \in DOMAIN rq :
        /\ rq[r].kind = "upload"
        /\ rq[r].pc = "done"
        /\ rq[r].extract_failed
        /\ CV \in DOMAIN rq[r].extracted_texts
        /\ rq[r].extracted_texts[CV] = << >>
        /\ rq[r].model = ModelReplies(NotJsonReply)
        /\ rq[r].save_called
        /\ rq[r].response.kind = "redirect"
        /\ table[Len(table)].generated_profile =
              Dumps(generate_fallback(questionnaire_data_of(rq[r].form)))

\* C4: a POST /upload ends either with exactly one new record committed and
\* a redirect to the profile view of that record's identifier, or with no
\* record committed and the error page with status 500; a 500 is never the
\* answer to a request whose record was committed.
C4_RedirectIffCommitted ==
    \A r \in DOMAIN rq :
        (rq[r].kind = "upload" /\ rq[r].pc = "done") =>
            \/ /\ rq[r].response.kind = "redirect"
               /\ rq[r].committed
               /\ rq[r].added = 1
               /\ table[Len(table)].candidate_id = rq[r].response.id
            \/ /\ rq[r].response.status = 500
               /\ ~rq[r].committed
               /\ rq[r].added = 0

\* C4, the part the code keeps: a redirect is sent only for a committed
\* record, and a request that committed nothing gets the 500 page
C4_RedirectOnlyWhenCommitted ==
    \A r \in DOMAIN rq :
        (rq[r].kind = "upload" /\ rq[r].pc = "done") =>
            /\ rq[r].response.kind = "redirect" =>
                  rq[r].committed /\ rq[r].added = 1
                  /\ table[Len(table)].candidate_id = rq[r].response.id
            /\ ~rq[r].committed => rq[r].response.status = 500 /\ rq[r].added = 0

-----------------------------------------------------------------------------
(* Specification SpecRecords: upload and profile-view requests one after   *)
(* the other until the table holds MaxRows records. The uploads carry a    *)
(* form and no file, the model is absent, and save_candidate and           *)
(* get_candidate may fail at any statement.                                *)

InitRecords == InitUpload

NextRecords ==
    \/ \E r \in DOMAIN rq, form \in {JaneForm, BlankForm} :
          Len(table) < MaxRows /\ StartUpload(r, form, NoParts)
    \/ \E r \in DOMAIN rq : StoreStep(r)
    \/ \E r \in DOMAIN rq : GenerateStep(r, ModelAbsent)
    \/ \E r \in DOMAIN rq, fault \in SaveFaults, uuid \in IdSpace : SaveStep(r, fault, uuid)
    \/ \E r \in DOMAIN rq, candidate_id \in IdSpace, fault \in GetFaults :
          ViewProfile(r, candidate_id, fault)
    \/ \E r \in DOMAIN rq : NextRequest(r)

SpecRecords == InitRecords /\ [][NextRecords]_vars

\* C9: over any sequence of upload and profile-view requests the stored
\* records only grow: a committing save_candidate adds exactly one record
\* under an identifier no earlier record has, and no step changes or removes
\* a stored record, so get_candidate's answer for an existing identifier
\* stays the same.
RecordsOnlyGrow ==
    /\ Len(table') \in {Len(table), Len(table) + 1}
    /\ \A i \in 1..Len(table) : table'[i] = table[i]
    /\ Len(table') = Len(table) + 1 =>
          \A i \in 1..Len(table) : table[i].candidate_id # table'[Len(table')].candidate_id
    /\ \A id \in {table[i].candidate_id : i \in 1..Len(table)} :
          get_candidate(table', id, "none") = get_candidate(table, id, "none")
C9_StoredRecordsOnlyGrow == [][RecordsOnlyGrow]_vars

\* the first record was viewed, unchanged, after a second one was saved
C9_Witness ==
    /\ Len(table) = 2
    /\ \E r \in DOMAIN rq :
          /\ rq[r].kind = "view"
          /\ rq[r].response.kind = "profile"
          /\ rq[r].response.id = table[1].candidate_id
          /\ Dumps(rq[r].response.profile) = table[1].generated_profile
          /\ table[1].generated_profile # table[2].generated_profile

-----------------------------------------------------------------------------
(* Specification SpecRace: two POST /upload requests run at once, their    *)
(* steps interleaved in any order, over the one upload directory and the   *)
(* one table. Each client sends at most MaxParts files under names that    *)
(* secure_filename maps together or apart.                                 *)

SpaceName == <<"a", " ", "b", ".">> \o PDF
UnderscoreName == <<"a", "_", "b", ".">> \o PDF
OtherName == <<"c", ".">> \o PDF
RaceNames == {SpaceName, UnderscoreName, OtherName}
RaceTags == {CV, PICTURE}
RaceParts(r) ==
    UNION {[S -> {Named(n, DataOf(r)) : n \in RaceNames}] :
              S \in {T \in SUBSET RaceTags : Cardinality(T) <= MaxParts}}

InitRace ==
    /\ uploads = NoFiles
    /\ table = << >>
    /\ rq = [r \in {1, 2} |-> IdleRq]
    /\ dbop = NoDbOp
    /\ writes = {}
    /\ saved = NoSaves
    /\ call = NoCall

NextRace ==
    \/ \E r \in DOMAIN rq : \E files \in RaceParts(r) : StartUpload(r, JaneForm, files)
    \/ \E r \in DOMAIN rq : StoreStep(r)
    \/ \E r \in DOMAIN rq, outcome \in {"text", "raises"} : ExtractStep(r, outcome)
    \/ \E r \in DOMAIN rq : GenerateStep(r, ModelAbsent)
    \/ \E r \in DOMAIN rq : SaveStep(r, "none", r)

SpecRace == InitRace /\ [][NextRace]_vars

\* two stores by different requests count as the same upload: the same type
\* tag and the same filename, as the client named it (original) or as
\* secure_filename leaves it
SameUpload(w1, w2, original) ==
    /\ w1.tag = w2.tag
    /\ IF original THEN w1.filename = w2.filename
       ELSE secure_filename(w1.filename) = secure_filename(w2.filename)

\* two requests store to one path only with the same upload, and otherwise
\* the files of a request are its own: the file at each path it holds, the
\* text it extracted from it and the path its committed record references
OwnFilesUnlessSameUpload(original) ==
    /\ \A w1, w2 \in writes :
          (w1.r # w2.r /\ w1.path = w2.path) => SameUpload(w1, w2, original)
    /\ \A r \in DOMAIN rq : \A tag \in DOMAIN rq[r].file_paths :
          LET mine == CHOOSE w \in writes : w.r = r /\ w.tag = tag
              clash == \E w \in writes : w.r # r /\ SameUpload(mine, w, original)
          IN  ~clash =>
                 /\ mine.path = rq[r].file_paths[tag]
                 /\ uploads[mine.path] = DataOf(r)
                 /\ tag \in DOMAIN rq[r].extracted_texts =>
                       rq[r].extracted_texts[tag] \in {<< >>, TextOf(DataOf(r))}
                 /\ rq[r].response.kind = "redirect" =>
                       get_candidate(table, rq[r].response.id, "none").rec.file_paths[tag]
                           = mine.path

\* C10: under any interleaving of concurrent uploads, two requests store to
\* the same path only when their files have the identical original filename
\* and the same type tag; otherwise the stored file, the extracted text and
\* the path in the committed record are the request's own.
C10_OverwriteOnlySameOriginalName == OwnFilesUnlessSameUpload(TRUE)

\* C10 as the code has it: two requests store to the same path only when
\* their files have the same type tag and the same name after
\* secure_filename; otherwise the stored file, the extracted text and the
\* path in the committed record are the request's own.
C10_OverwriteOnlySameSanitizedName == OwnFilesUnlessSameUpload(FALSE)

\* both requests were answered with a redirect; their CVs, named differently
\* by the clients, went to one path, and request 1 extracted the text of
\* request 2's file
C10_Witness ==
    /\ \A r \in DOMAIN rq : rq[r].pc = "done" /\ rq[r].response.kind = "redirect"
    /\ \E w1, w2 \in writes :
          /\ w1.r = 1 /\ w2.r = 2
          /\ w1.tag = CV /\ w2.tag = CV
          /\ w1.filename # w2.filename
          /\ w1.path = w2.path
    /\ CV \in DOMAIN rq[1].extracted_texts
    /\ rq[1].extracted_texts[CV] = TextOf(DataOf(2))
    /\ uploads[rq[1].file_paths[CV]] = DataOf(2)

=============================================================================
